---- MODULE Spec2Model ----
(***************************************************************************)
(* A model of alex-pancho/google_classroom_api: the client-side layer over *)
(* the Google Classroom API.  The repository holds two Students classes    *)
(* (cr_students_api.py, used by make_students.py, and an older one in      *)
(* classroom_api.py); both are modelled, selected by the variable cls.     *)
(*                                                                         *)
(* Python values are modelled as strings; None is the string "<None>".     *)
(* The remote service is the environment: each remote call draws its       *)
(* outcome from Outcomes.                                                  *)
(***************************************************************************)
EXTENDS Integers, Sequences, FiniteSets, TLC

VARIABLES
    \* ---- roster: a Students object and one operation on it ----
    cls,        \* module the Students class comes from
    file,       \* the file handed to add_students_from_file
    invite,     \* the invite argument of add_students_from_file
    rpc,        \* position of the operation
    students,   \* local: what read_csv_json_file returned
    idx,        \* local: index of the next record of the for loop
    stats,      \* local: the stats dict
    calls,      \* remote calls issued so far, in order
    trace,      \* per handled record: its index, the counters it incremented,
                \* the calls it made and the answer the service had for it
    single,     \* a finished add_student / invite_student call
    \* ---- listing: Students.get_students against the course's roster ----
    roster,     \* the students of the course, in server order
    lpc,        \* position of get_students
    listed,     \* local: the list `students` being extended
    page_token, \* local: << >> for None, << t >> for the cursor t
    requests,   \* the students().list requests issued, in order
    responses,  \* the nextPageToken of each successful response, in order
    lresult,    \* what get_students returned
    lop,        \* the method that called get_students, None before any call
    output_file,\* the output_file argument of export_students_to_csv
    written,    \* the file export wrote: << >> when none, else << file >>
    exported,   \* what export_students_to_csv returned, None before it did
    llog,       \* finished get_topics and get_courses calls, in order
    \* ---- content: Content.create_topic against the course's topics ----
    topics,     \* the topics of the course on the service, in list order
    tpc,        \* per caller: position inside create_topic
    tname,      \* per caller: the topic_name argument
    tlist,      \* per caller: local `topics`, what get_topics returned
    tinfo,      \* per caller: how the call went so far
    thist,      \* the finished create_topic calls, in order of return
    tcreates,   \* the topics().create requests issued, in order
    \* ---- courses: a classroom_api.Courses object ----
    served,     \* the ACTIVE courses of the service, in list order
    carg,       \* the constructor argument course_id_or_name
    cpc,        \* position: inside __init__, constructed, or raised
    courses,    \* the attribute self.courses, once set
    course_id,  \* the attribute self.course_id: << >> until set
    clog,       \* the lookups made on the current cache, in order
    cerror,     \* the exception that left __init__, None if none
    \* ---- creation: a classroom_api.CoursesCreation object ----
    new_courses,  \* the courses the service created, in order
    cc_course_id, \* the attribute self.course_id: << >> while unset
    cchist,       \* the finished create_course and __call__ calls
    \* ---- posts: Content.create_announcement and create_material ----
    posts,        \* the create requests sent, in order, with their answers
    \* ---- credentials: classroom_api.authenticate ----
    token_file, \* token.json: << >> when absent, else << credential >>
    secret,     \* whether client_secret.json exists
    skew,       \* what the library's Credentials.expired subtracts from expiry
    now,        \* the clock, in seconds
    apc,        \* position inside authenticate
    creds,      \* local: << >> for False, else << credential >>
    alog,       \* the steps of the current call: load, flow, write
    aret        \* what the last call returned or raised

rosterVars == <<cls, file, invite, rpc, students, idx, stats, calls, trace, single>>
listVars == <<roster, lpc, listed, page_token, requests, responses, lresult,
              lop, output_file, written, exported, llog>>

topicVars == <<topics, tpc, tname, tlist, tinfo, thist, tcreates>>
courseVars == <<served, carg, cpc, courses, course_id, clog, cerror>>
creationVars == <<new_courses, cc_course_id, cchist>>
postVars == <<posts>>
authVars == <<token_file, secret, skew, now, apc, creds, alog, aret>>

vars == <<rosterVars, listVars, topicVars, courseVars, creationVars, postVars, authVars>>
notRoster == <<listVars, topicVars, courseVars, creationVars, postVars, authVars>>
notList == <<rosterVars, topicVars, courseVars, creationVars, postVars, authVars>>
notTopics == <<rosterVars, listVars, courseVars, creationVars, postVars, authVars>>
notCourses == <<rosterVars, listVars, topicVars, creationVars, postVars, authVars>>
notCreation == <<rosterVars, listVars, topicVars, courseVars, postVars, authVars>>
notPosts == <<rosterVars, listVars, topicVars, courseVars, creationVars, authVars>>
notAuth == <<rosterVars, listVars, topicVars, courseVars, creationVars, postVars>>

None == "<None>"

\* Python truthiness of a str-or-None value.
Truthy(v) == v # None /\ v # ""

\* Python's `a or b`.
PyOr(a, b) == IF Truthy(a) THEN a ELSE b

\* dict.get(key) with the default None.
Get(d, key) == IF key \in DOMAIN d THEN d[key] ELSE None

(***************************************************************************)
(* Bounds and input sets.                                                  *)
(***************************************************************************)
MaxRecords == 3

\* The outcomes of one remote call: success, HttpError with status 409,
\* HttpError with another status, an exception that is not an HttpError.
Outcomes == {"ok", "409", "500", "network"}

Rows ==
    { [email |-> "a@x.com"],
      [Email |-> "b@x.com"],
      [name |-> "no-email"],
      [email |-> "", Email |-> "", student_email |-> "c@x.com"],
      [email |-> "d@x.com", name |-> "already in course"] }

RowSeqs == UNION { [1..n -> Rows] : n \in 0..MaxRecords }

Files ==
    { [exists |-> TRUE, suffix |-> ".csv", wellformed |-> TRUE, rows |-> r] : r \in RowSeqs }
    \cup
    { [exists |-> FALSE, suffix |-> ".csv", wellformed |-> TRUE, rows |-> << [email |-> "a@x.com"] >>],
      [exists |-> TRUE, suffix |-> ".txt", wellformed |-> TRUE, rows |-> << [email |-> "a@x.com"] >>],
      [exists |-> TRUE, suffix |-> ".csv", wellformed |-> FALSE, rows |-> << [email |-> "a@x.com"] >>],
      [exists |-> TRUE, suffix |-> ".json", wellformed |-> FALSE, rows |-> << [email |-> "a@x.com"] >>],
      [exists |-> TRUE, suffix |-> ".json", wellformed |-> TRUE,
       rows |-> << [Email |-> "b@x.com"], [name |-> "no-email"] >>] }

Emails == {"a@x.com", "b@x.com", "c@x.com", "d@x.com"}

Classes == {"cr_students_api", "classroom_api"}

(***************************************************************************)
(* fileprocessor.read_csv_json_file: None for a missing file, a parse      *)
(* error or an unsupported suffix, the rows otherwise.                     *)
(***************************************************************************)
NoContent == [isNone |-> TRUE, rows |-> << >>]
Content(r) == [isNone |-> FALSE, rows |-> r]

read_csv_json_file(f) ==
    IF ~f.exists THEN NoContent
    ELSE IF f.suffix = ".csv" THEN (IF f.wellformed THEN Content(f.rows) ELSE NoContent)
    ELSE IF f.suffix = ".json" THEN (IF f.wellformed THEN Content(f.rows) ELSE NoContent)
    ELSE NoContent

(***************************************************************************)
(* GoogleClassroomBuild.build_services: the attributes it sets.            *)
(***************************************************************************)
build_services == {"classroom_service", "calendar_service"}

Return(v, cs) == [kind |-> "return", value |-> v, calls |-> cs]
Raise(e, cs)  == [kind |-> "raise", value |-> e, calls |-> cs]

StudentsCreate(email) == [api |-> "courses.students.create", userId |-> email, role |-> None]
InvitationsCreate(email) == [api |-> "invitations.create", userId |-> email, role |-> "STUDENT"]

(***************************************************************************)
(* cr_students_api.Students.add_student: True on success, False on 409,    *)
(* re-raises every other HttpError; other exceptions are not caught.       *)
(***************************************************************************)
add_student(email, outcome) ==
    IF outcome = "ok" THEN Return("True", << StudentsCreate(email) >>)
    ELSE IF outcome = "409" THEN Return("False", << StudentsCreate(email) >>)
    ELSE IF outcome = "500" THEN Raise("HttpError", << StudentsCreate(email) >>)
    ELSE Raise("Exception", << StudentsCreate(email) >>)

(***************************************************************************)
(* classroom_api.Students.add_student: True on success, False on every     *)
(* HttpError and on every other exception.                                 *)
(***************************************************************************)
classroom_api_add_student(email, outcome) ==
    IF outcome = "ok" THEN Return("True", << StudentsCreate(email) >>)
    ELSE Return("False", << StudentsCreate(email) >>)

(***************************************************************************)
(* cr_students_api.Students.invite_student: reads self.classroom, an       *)
(* attribute build_services never sets, inside the try; the AttributeError *)
(* is not an HttpError and leaves the method before any request is made.   *)
(***************************************************************************)
invite_student(email, outcome) ==
    IF "classroom" \notin build_services THEN Raise("AttributeError", << >>)
    ELSE IF outcome = "ok" THEN Return("True", << InvitationsCreate(email) >>)
    ELSE IF outcome = "409" THEN Return("False", << InvitationsCreate(email) >>)
    ELSE IF outcome = "500" THEN Raise("HttpError", << InvitationsCreate(email) >>)
    ELSE Raise("Exception", << InvitationsCreate(email) >>)

\* A variant of ExtractEmail that also falls back to the name column.
ExtractEmail_or_name(student) ==
    PyOr(PyOr(PyOr(Get(student, "email"), Get(student, "Email")),
              Get(student, "student_email")), Get(student, "name"))

\* The email expression of the loop body: email, then Email, then student_email.
ExtractEmail(student) ==
    PyOr(PyOr(Get(student, "email"), Get(student, "Email")), Get(student, "student_email"))

\* `"already in course" in str(student)`: the phrase occurs in the repr of the
\* record, that is in one of its keys or values.
Phrase == {"already in course"}
InStr(student) ==
    \E k \in DOMAIN student : k \in Phrase \/ student[k] \in Phrase

\* stats[c] += 1 for every c of incs.
Count(incs, c) == Cardinality({i \in DOMAIN incs : incs[i] = c})
Bump(s, incs) == [c \in DOMAIN s |-> s[c] + Count(incs, c)]

\* What one pass through the loop body did: the counters it incremented, the
\* calls it issued, and whether an exception left the loop.
Iter(raised, incs, cs, email) ==
    [raised |-> raised, incs |-> incs, calls |-> cs, email |-> email]

\* `try: result = ...; if result: added += 1 else: already_exists += 1
\*  except Exception: failed += 1`
try_count(r) ==
    IF r.kind = "raise" THEN << "failed" >>
    ELSE IF r.value = "True" THEN << "added" >>
    ELSE << "already_exists" >>

\* A variant of cr_iteration whose handler is `except HttpError`: any other
\* exception leaves the loop.
cr_iteration_except_HttpError(student, inv, outcome) ==
    LET email == ExtractEmail(student) IN
    IF ~Truthy(email) THEN Iter(FALSE, << "failed" >>, << >>, email)
    ELSE LET r == IF inv THEN invite_student(email, outcome)
                  ELSE add_student(email, outcome) IN
         IF r.kind = "raise" /\ r.value # "HttpError" THEN Iter(TRUE, << >>, r.calls, email)
         ELSE Iter(FALSE, try_count(r), r.calls, email)

(***************************************************************************)
(* One iteration of the for loop of add_students_from_file, in each class. *)
(***************************************************************************)
cr_iteration(student, inv, outcome) ==
    LET email == ExtractEmail(student) IN
    IF ~Truthy(email) THEN Iter(FALSE, << "failed" >>, << >>, email)
    ELSE LET r == IF inv THEN invite_student(email, outcome)
                  ELSE add_student(email, outcome) IN
         Iter(FALSE, try_count(r), r.calls, email)

classroom_api_iteration(student, outcome) ==
    LET email == ExtractEmail(student) IN
    IF ~Truthy(email) THEN Iter(FALSE, << "failed" >>, << >>, email)
    ELSE LET r == classroom_api_add_student(email, outcome) IN
         IF r.kind = "raise" THEN Iter(TRUE, << >>, r.calls, email)
         ELSE IF r.value = "True" THEN Iter(FALSE, << "added" >>, r.calls, email)
         ELSE IF InStr(student) THEN Iter(FALSE, << "already_exists" >>, r.calls, email)
         ELSE Iter(FALSE, << "failed" >>, r.calls, email)

\* A Students object of class c, before any call, and the arguments f and inv
\* a later add_students_from_file is given.
RosterFresh(c, f, inv) ==
    /\ cls = c
    /\ file = f
    /\ invite = inv
    /\ rpc = "new"
    /\ students = << >>
    /\ idx = 1
    /\ stats = [added |-> 0, failed |-> 0, already_exists |-> 0]
    /\ calls = << >>
    /\ trace = << >>
    /\ single = << >>

\* add_students_from_file up to the loop: read the file, return the zero stats
\* when nothing was read.
BulkStart ==
    /\ rpc = "new"
    /\ LET content == read_csv_json_file(file) IN
       IF content.rows = << >> \/ content.isNone
       THEN /\ rpc' = "returned"
            /\ students' = << >>
       ELSE /\ rpc' = "loop"
            /\ students' = content.rows
    /\ UNCHANGED <<cls, file, invite, idx, stats, calls, trace, single>>
    /\ UNCHANGED notRoster

BulkIteration ==
    /\ rpc = "loop"
    /\ idx <= Len(students)
    /\ \E outcome \in Outcomes :
         LET it == IF cls = "cr_students_api"
                   THEN cr_iteration(students[idx], invite, outcome)
                   ELSE classroom_api_iteration(students[idx], outcome) IN
         /\ stats' = Bump(stats, it.incs)
         /\ calls' = calls \o it.calls
         /\ trace' = Append(trace, [index |-> idx, incs |-> it.incs,
                                    email |-> it.email, ncalls |-> Len(it.calls),
                                    outcome |-> IF Truthy(it.email) THEN outcome ELSE None])
         /\ rpc' = IF it.raised THEN "raised" ELSE "loop"
    /\ idx' = idx + 1
    /\ UNCHANGED <<cls, file, invite, students, single>>
    /\ UNCHANGED notRoster

BulkReturn ==
    /\ rpc = "loop"
    /\ idx > Len(students)
    /\ rpc' = "returned"
    /\ UNCHANGED <<cls, file, invite, students, idx, stats, calls, trace, single>>
    /\ UNCHANGED notRoster

\* A direct call of add_student on a fresh object.
AddStudentCall ==
    /\ rpc = "new"
    /\ \E email \in Emails, outcome \in Outcomes :
         LET r == IF cls = "cr_students_api" THEN add_student(email, outcome)
                  ELSE classroom_api_add_student(email, outcome) IN
         /\ single' = << [op |-> "add_student", email |-> email, outcome |-> outcome,
                          kind |-> r.kind, value |-> r.value] >>
         /\ calls' = calls \o r.calls
    /\ rpc' = "single"
    /\ UNCHANGED <<cls, file, invite, students, idx, stats, trace>>
    /\ UNCHANGED notRoster

\* A direct call of invite_student (cr_students_api only).
InviteStudentCall ==
    /\ rpc = "new"
    /\ cls = "cr_students_api"
    /\ \E email \in Emails, outcome \in Outcomes :
         LET r == invite_student(email, outcome) IN
         /\ single' = << [op |-> "invite_student", email |-> email, outcome |-> outcome,
                          kind |-> r.kind, value |-> r.value] >>
         /\ calls' = calls \o r.calls
    /\ rpc' = "single"
    /\ UNCHANGED <<cls, file, invite, students, idx, stats, trace>>
    /\ UNCHANGED notRoster

RosterNext ==
    \/ BulkStart
    \/ BulkIteration
    \/ BulkReturn
    \/ AddStudentCall
    \/ InviteStudentCall

(***************************************************************************)
(* Claims about the roster operations.                                     *)
(***************************************************************************)
Readable(f) == ~read_csv_json_file(f).isNone
Total(s) == s.added + s.already_exists + s.failed
EmailKeys == {"email", "Email", "student_email"}
LacksEmailKey(student) == EmailKeys \cap DOMAIN student = {}
\* The number of records among the first n that have no recognized email key.
Lacking(recs, n) == Cardinality({i \in 1..n : LacksEmailKey(recs[i])})

\* C1: add_students_from_file on a readable file of N records never leaves the
\* loop through an exception; it handles the records in input order, each one
\* increments exactly one counter, and on return added + already_exists +
\* failed = N.
C1_BulkHandlesEveryRecord ==
    /\ rpc # "raised"
    /\ Len(trace) = idx - 1
    /\ \A i \in DOMAIN trace : trace[i].index = i /\ Len(trace[i].incs) = 1
    /\ Total(stats) = Len(trace)
    /\ (rpc = "returned" /\ Readable(file)) =>
          /\ Len(trace) = Len(file.rows)
          /\ Total(stats) = Len(file.rows)

C1_Witness ==
    /\ rpc = "returned"
    /\ Len(file.rows) = MaxRecords
    /\ stats.added >= 1 /\ stats.already_exists >= 1 /\ stats.failed >= 1
    /\ \E i \in DOMAIN trace : trace[i].outcome \in {"500", "network"}

\* C2: a record with none of the keys email, Email, student_email increments
\* failed and causes no remote call; with M such records among N, failed >= M
\* and at most N - M remote calls are issued.
C2_NoEmailNoCall ==
    rpc \in {"loop", "returned", "raised"} =>
       /\ \A i \in DOMAIN trace :
             LacksEmailKey(students[i]) =>
                trace[i].incs = << "failed" >> /\ trace[i].ncalls = 0
       /\ stats.failed >= Lacking(students, Len(trace))
       /\ Len(calls) <= Len(trace) - Lacking(students, Len(trace))

C2_Witness ==
    /\ rpc = "returned"
    /\ Len(students) = MaxRecords
    /\ Lacking(students, Len(students)) = 1
    /\ Len(calls) = MaxRecords - 1
    /\ stats.failed = 2

\* C3: with mode Add every record that carries an email is counted by the
\* outcome of its add: added on success, already_exists on 409, failed on any
\* other failure.
C3_AddCountsByOutcome ==
    (~invite /\ rpc \in {"loop", "returned", "raised"}) =>
       \A i \in DOMAIN trace :
          Truthy(trace[i].email) =>
             trace[i].incs = (IF trace[i].outcome = "ok" THEN << "added" >>
                              ELSE IF trace[i].outcome = "409" THEN << "already_exists" >>
                              ELSE << "failed" >>)

\* C3 as it holds of cr_students_api.Students alone.
C3_AddCountsByOutcome_cr == cls = "cr_students_api" => C3_AddCountsByOutcome

\* C4: add_student returns True when the create succeeds, False on 409, and
\* raises on every other failure.
C4_AddStudentOutcome ==
    \A i \in DOMAIN single :
       single[i].op = "add_student" =>
          /\ single[i].outcome = "ok" => (single[i].kind = "return" /\ single[i].value = "True")
          /\ single[i].outcome = "409" => (single[i].kind = "return" /\ single[i].value = "False")
          /\ single[i].outcome \in {"500", "network"} => single[i].kind = "raise"

\* C4 as it holds of cr_students_api.Students alone.
C4_AddStudentOutcome_cr == cls = "cr_students_api" => C4_AddStudentOutcome

\* C5: invite_student issues one create on the invitation sub-resource with
\* (userId = email, role = STUDENT), returns True when it is accepted and
\* False on 409; in bulk Invite mode an accepted invitation counts as added
\* and a conflicting one as already_exists.
C5_InviteOutcome ==
    /\ \A i \in DOMAIN single :
          (single[i].op = "invite_student" /\ single[i].outcome \in {"ok", "409"}) =>
             /\ calls = << InvitationsCreate(single[i].email) >>
             /\ single[i].kind = "return"
             /\ single[i].value = (IF single[i].outcome = "ok" THEN "True" ELSE "False")
    /\ (invite /\ rpc \in {"loop", "returned", "raised"}) =>
          \A i \in DOMAIN trace :
             /\ trace[i].outcome = "ok" => trace[i].incs = << "added" >>
             /\ trace[i].outcome = "409" => trace[i].incs = << "already_exists" >>

(***************************************************************************)
(* Students.get_students (the same text in cr_students_api.py and          *)
(* classroom_api.py): the pagination loop.                                 *)
(***************************************************************************)
MaxRoster == 250

\* pageSize=100 of the list request.
PageSize == 100

NoToken == << >>

\* The outcomes of a list request: a response, an HttpError, another exception.
ListOutcomes == {"ok", "HttpError", "Exception"}

Min(a, b) == IF a < b THEN a ELSE b

\* The service's answer to students().list(pageToken, pageSize): the next
\* pageSize students after the cursor, and a cursor while more remain.
students_list(all, token, pageSize) ==
    LET offset == IF token = NoToken THEN 0 ELSE token[1]
        last == Min(offset + pageSize, Len(all)) IN
    [students |-> SubSeq(all, offset + 1, last),
     nextPageToken |-> IF last < Len(all) THEN << last >> ELSE NoToken]

\* A variant of extend that keeps only the page just read.
extend_overwrite(acc, page) == page

\* students.extend(response.get("students", []))
extend(acc, page) == acc \o page

\* A variant of the break test that leaves the loop after the first page.
should_break_always(token) == TRUE

\* if not page_token: break
should_break(token) == token = NoToken

\* A variant of the handlers that returns what the loop had fetched.
get_students_except_partial(acc) == [failed |-> TRUE, kind |-> "return", value |-> acc]

\* except HttpError / except Exception of get_students: log, return [].
get_students_except(acc) == [failed |-> TRUE, kind |-> "return", value |-> << >>]

\* The files export_students_to_csv may be asked to write: the suffix of the
\* path, and whether opening and writing it succeeds.
OutputFiles == [suffix : {".csv", ".json", ".txt"}, writable : BOOLEAN]

\* write_csv_json_file(file_path, data): False and no file for empty data or a
\* suffix other than .csv and .json; else the rows are written and True is
\* returned, or the write raises, False is returned and the file is whatever
\* the failed write left (none, or an empty one).
write_csv_json_file(f, data, old, left) ==
    IF data = << >> THEN [out |-> FALSE, file |-> old]
    ELSE IF f.suffix \notin {".csv", ".json"} THEN [out |-> FALSE, file |-> old]
    ELSE IF f.writable THEN [out |-> TRUE, file |-> << [suffix |-> f.suffix, rows |-> data] >>]
    ELSE [out |-> FALSE, file |-> left]

\* A Students object over the roster r, before get_students is called.
ListFresh(r) ==
    /\ roster = r
    /\ lpc = "idle"
    /\ listed = << >>
    /\ page_token = NoToken
    /\ requests = << >>
    /\ responses = << >>
    /\ lresult = [failed |-> FALSE, kind |-> "return", value |-> << >>]
    /\ lop = None
    /\ output_file = [suffix |-> ".csv", writable |-> TRUE]
    /\ written = << >>
    /\ exported = None
    /\ llog = << >>

\* get_students up to the loop: students = [], page_token = None.
GetStudentsStart ==
    /\ lpc = "idle"
    /\ lpc' = "loop"
    /\ lop' = "get_students"
    /\ listed' = << >>
    /\ page_token' = NoToken
    /\ UNCHANGED <<roster, requests, responses, lresult, output_file, written,
                   exported, llog>>
    /\ UNCHANGED notList

\* export_students_to_csv(output_file), first statement: the call of
\* get_students, up to its loop.
ExportStart(f) ==
    /\ lpc = "idle"
    /\ lpc' = "loop"
    /\ lop' = "export_students_to_csv"
    /\ output_file' = f
    /\ listed' = << >>
    /\ page_token' = NoToken
    /\ UNCHANGED <<roster, requests, responses, lresult, written, exported, llog>>
    /\ UNCHANGED notList

\* One pass of `while True`: the request, then either the except clauses
\* (return []) or extend, the new cursor and the break test.
GetStudentsRequest ==
    /\ lpc = "loop"
    /\ requests' = Append(requests, [pageToken |-> page_token, pageSize |-> PageSize])
    /\ \E outcome \in ListOutcomes :
         IF outcome = "ok"
         THEN LET response == students_list(roster, page_token, PageSize) IN
              /\ listed' = extend(listed, response.students)
              /\ page_token' = response.nextPageToken
              /\ responses' = Append(responses, response.nextPageToken)
              /\ IF should_break(response.nextPageToken)
                 THEN /\ lpc' = "returned"
                      /\ lresult' = [failed |-> FALSE, kind |-> "return",
                                     value |-> listed']
                 ELSE /\ lpc' = "loop"
                      /\ UNCHANGED lresult
         ELSE /\ lpc' = "returned"
              /\ lresult' = get_students_except(listed)
              /\ UNCHANGED <<listed, page_token, responses>>
    /\ UNCHANGED <<roster, lop, output_file, written, exported, llog>>
    /\ UNCHANGED notList

\* export_students_to_csv, the rest: False when get_students returned nothing,
\* else the result of write_csv_json_file decides.
ExportFinish ==
    /\ lpc = "returned"
    /\ lop = "export_students_to_csv"
    /\ lresult.kind = "return"
    /\ lpc' = "exported"
    /\ IF lresult.value = << >>
       THEN /\ exported' = "False"
            /\ UNCHANGED written
       ELSE \E left \in {written, << [suffix |-> output_file.suffix, rows |-> << >>] >>} :
               LET w == write_csv_json_file(output_file, lresult.value, written, left) IN
               /\ exported' = IF w.out THEN "True" ELSE "False"
               /\ written' = w.file
    /\ UNCHANGED <<roster, listed, page_token, requests, responses, lresult, lop,
                   output_file, llog>>
    /\ UNCHANGED notList

ListNext ==
    \/ GetStudentsStart
    \/ \E f \in OutputFiles : ExportStart(f)
    \/ GetStudentsRequest
    \/ ExportFinish

\* The number of pages of pageSize students that n students fill; an empty
\* roster is served as one empty page.
Pages(n) == IF n = 0 THEN 1 ELSE (n + PageSize - 1) \div PageSize

\* C6: when every page request succeeds, get_students returns all pages'
\* students concatenated in server order and has issued one request per page
\* with pageSize 100, the first without cursor and each later one with the
\* cursor of the previous response; 250 students take exactly 3 requests.
C6_ListDrainsPages ==
    (lpc = "returned" /\ ~lresult.failed) =>
       /\ lresult.value = roster
       /\ Len(requests) = Pages(Len(roster))
       /\ requests[1].pageToken = NoToken
       /\ \A i \in DOMAIN requests :
             /\ requests[i].pageSize = 100
             /\ i > 1 => (requests[i].pageToken = responses[i - 1]
                          /\ requests[i].pageToken # NoToken)
       /\ Len(roster) = 250 => Len(requests) = 3

C6_Witness ==
    /\ lpc = "returned"
    /\ ~lresult.failed
    /\ Len(roster) = 250
    /\ Len(requests) = 3
    /\ Len(lresult.value) = 250

\* The positions at which get_students has returned.
Returned == lpc \in {"returned", "exported"}

\* The paging discipline of C18 as a state predicate: a request after the
\* first carries the cursor of the response before it, no request follows a
\* response without cursor or a failed request, and the requests never
\* outnumber the pages the roster fills.
Paging ==
    /\ Len(requests) \in {Len(responses), Len(responses) + 1}
    /\ Len(requests) <= Pages(Len(roster))
    /\ \A i \in DOMAIN requests :
          IF i = 1 THEN requests[i].pageToken = NoToken
          ELSE /\ i - 1 \in DOMAIN responses
               /\ responses[i - 1] # NoToken
               /\ requests[i].pageToken = responses[i - 1]
    /\ \A i \in DOMAIN responses : responses[i] = NoToken => i = Len(requests)
    /\ Len(requests) > Len(responses) => Returned
    /\ (Returned /\ Len(requests) = Len(responses)) =>
          (responses # << >> /\ responses[Len(responses)] = NoToken)
    /\ lpc = "loop" =>
          (Len(requests) = Len(responses)
           /\ (responses # << >> => responses[Len(responses)] # NoToken))

\* C18: get_students terminates for every roster: it asks for the next page
\* only while the last response carried a cursor, issues no request after the
\* first response without cursor or after the first failed request, and then
\* returns.
C18_PagingTerminates == []Paging /\ ((lpc = "loop") ~> Returned)

\* A roster of three pages drained and returned.
C18_Witness ==
    /\ lpc = "returned"
    /\ Len(roster) > 2 * PageSize
    /\ Len(requests) = 3
    /\ Len(responses) = 3
    /\ responses[1] # NoToken /\ responses[2] # NoToken /\ responses[3] = NoToken

\* C19: get_students returns all the pages or nothing: its result is the
\* whole roster or the empty list; when a later page's request fails the
\* students already fetched are dropped and [] is returned, and
\* export_students_to_csv then returns False and writes no file.
C19_AllOrNothing ==
    Returned =>
       /\ lresult.value \in {roster, << >>}
       /\ Len(requests) > Len(responses) => lresult.value = << >>
       /\ (lpc = "exported" /\ Len(requests) > Len(responses)) =>
             (exported = "False" /\ written = << >>)

\* The second page's request failed after the first page was fetched, and the
\* export reported failure without writing.
C19_Witness ==
    /\ lpc = "exported"
    /\ Len(requests) = 2
    /\ Len(responses) = 1
    /\ Len(listed) = PageSize
    /\ lresult.value = << >>
    /\ exported = "False"
    /\ written = << >>

(***************************************************************************)
(* Content.get_topics and Content.create_topic (the same text in           *)
(* classroom_content_api.py and classroom_api.py).  A name is a sequence   *)
(* of characters, so that str.lower() is computed.                         *)
(***************************************************************************)
MaxCalls == 2

Callers == {1, 2}

lower_char(ch) ==
    CASE ch = "A" -> "a"
      [] ch = "B" -> "b"
      [] OTHER -> ch

\* str.lower()
lower(str) == [i \in DOMAIN str |-> lower_char(str[i])]

TopicNames == { << "A", "b" >>, << "a", "b" >>, << "A", "B" >>, << "b" >> }

\* The courses' topic lists the model starts from.
TopicLists ==
    { << >>,
      << [name |-> << "A", "b" >>, topicId |-> 1] >>,
      << [topicId |-> 1], [name |-> << "B" >>, topicId |-> 2] >> }

NoId == << >>

\* topic.get("name", "")
topic_name(topic) == IF "name" \in DOMAIN topic THEN topic.name ELSE << >>

\* get_topics: response.get("topic", []) on success, [] on HttpError and on
\* any other exception.
get_topics(onService, outcome) == IF outcome = "ok" THEN onService ELSE << >>

\* A variant of the scan that compares the names as they are written.
RECURSIVE find_topic_exact(_, _, _)
find_topic_exact(list, topic_name_arg, i) ==
    IF i > Len(list) THEN NoId
    ELSE IF topic_name(list[i]) = topic_name_arg THEN << list[i].topicId >>
    ELSE find_topic_exact(list, topic_name_arg, i + 1)

\* The for loop of create_topic from index i on: the topicId of the first
\* topic whose lowered name equals the lowered argument, NoId when none does.
RECURSIVE find_topic(_, _, _)
find_topic(list, topic_name_arg, i) ==
    IF i > Len(list) THEN NoId
    ELSE IF lower(topic_name(list[i])) = lower(topic_name_arg) THEN << list[i].topicId >>
    ELSE find_topic(list, topic_name_arg, i + 1)

\* The service's topics().create: a new topic with a fresh topicId, last in
\* the list.
topics_create(onService, name) ==
    Append(onService, [name |-> name, topicId |-> Len(onService) + 1])

Exists(onService, name) ==
    \E i \in DOMAIN onService : lower(topic_name(onService[i])) = lower(name)

\* A Content object per caller over a course whose topics are t, before any
\* create_topic call.
TopicsFresh(t) ==
    /\ topics = t
    /\ tpc = [c \in Callers |-> "idle"]
    /\ tname = [c \in Callers |-> << >>]
    /\ tlist = [c \in Callers |-> << >>]
    /\ tinfo = [c \in Callers |-> [existed |-> FALSE, listed |-> "ok"]]
    /\ thist = << >>
    /\ tcreates = << >>

\* create_topic, first statement: topics = self.get_topics().
CreateTopicList(c, name) ==
    /\ tpc[c] = "idle"
    /\ Len(thist) < MaxCalls
    /\ \E outcome \in ListOutcomes :
         /\ tlist' = [tlist EXCEPT ![c] = get_topics(topics, outcome)]
         /\ tinfo' = [tinfo EXCEPT ![c] = [existed |-> Exists(topics, name),
                                           listed |-> outcome]]
    /\ tpc' = [tpc EXCEPT ![c] = "listed"]
    /\ tname' = [tname EXCEPT ![c] = name]
    /\ UNCHANGED <<topics, thist, tcreates>>
    /\ UNCHANGED notTopics

\* A variant of the try block that sends the create request a second time.
create_requests_retry(c, k, name) ==
    << [caller |-> c, call |-> k, name |-> name],
       [caller |-> c, call |-> k, name |-> name] >>

\* The topics().create requests of the try block of caller c's k-th call:
\* one, with body {"name": topic_name}.
create_requests(c, k, name) == << [caller |-> c, call |-> k, name |-> name] >>

\* A variant of the handlers that lets the failure leave create_topic.
create_topic_reraise(outcome) == [kind |-> "raise", result |-> NoId]

\* except HttpError / except Exception of create_topic: log, return None.
create_topic_except(outcome) == [kind |-> "return", result |-> NoId]

\* create_topic, the rest: the scan, and on a miss the create request, whose
\* failure (HttpError or not) makes the method return None.
CreateTopicFinish(c) ==
    /\ tpc[c] = "listed"
    /\ LET found == find_topic(tlist[c], tname[c], 1)
           done(kind, result, created, outcome) ==
               [caller |-> c, name |-> tname[c], kind |-> kind, result |-> result,
                existed |-> tinfo[c].existed, listed |-> tinfo[c].listed,
                created |-> created, create |-> outcome] IN
       IF found # NoId
       THEN /\ thist' = Append(thist, done("return", found, FALSE, None))
            /\ UNCHANGED <<topics, tcreates>>
       ELSE /\ tcreates' = tcreates \o create_requests(c,
                   Cardinality({i \in DOMAIN thist : thist[i].caller = c}) + 1, tname[c])
            /\ \E outcome \in ListOutcomes :
               IF outcome = "ok"
               THEN /\ topics' = topics_create(topics, tname[c])
                    /\ thist' = Append(thist, done("return",
                                                   << topics'[Len(topics')].topicId >>,
                                                   TRUE, outcome))
               ELSE LET e == create_topic_except(outcome) IN
                    /\ thist' = Append(thist, done(e.kind, e.result, TRUE, outcome))
                    /\ UNCHANGED topics
    /\ tpc' = [tpc EXCEPT ![c] = "idle"]
    /\ tname' = [tname EXCEPT ![c] = << >>]
    /\ tlist' = [tlist EXCEPT ![c] = << >>]
    /\ tinfo' = [tinfo EXCEPT ![c] = [existed |-> FALSE, listed |-> "ok"]]
    /\ UNCHANGED notTopics

\* A single caller: create_topic calls one after the other.
TopicsNext ==
    \/ \E name \in TopicNames : CreateTopicList(1, name)
    \/ CreateTopicFinish(1)

\* Every remote call of the finished call h succeeded.
AllOk(h) == h.listed = "ok" /\ h.create \in {"ok", None}
Creates(h) == IF h.created THEN 1 ELSE 0

\* C7: two create_topic calls in sequence with the same name in any letter
\* case, every remote call succeeding and nobody else changing the course,
\* return the same topicId and issue one create in total, none when the topic
\* existed before the first call.
C7_TwiceSameTopic ==
    \A i \in DOMAIN thist :
       (i + 1 \in DOMAIN thist
        /\ lower(thist[i].name) = lower(thist[i + 1].name)
        /\ AllOk(thist[i]) /\ AllOk(thist[i + 1])) =>
          /\ thist[i].result # NoId
          /\ thist[i + 1].result = thist[i].result
          /\ Creates(thist[i]) + Creates(thist[i + 1])
                = (IF thist[i].existed THEN 0 ELSE 1)

C7_Witness ==
    /\ Len(thist) >= 2
    /\ thist[1].name # thist[2].name
    /\ lower(thist[1].name) = lower(thist[2].name)
    /\ AllOk(thist[1]) /\ AllOk(thist[2])
    /\ thist[1].created /\ ~thist[2].created
    /\ thist[2].result = thist[1].result

\* C8: for every outcome of the listing calls the course never holds two
\* topics whose names are equal ignoring letter case, and a call naming a
\* topic that exists returns its topicId and issues no create.
C8_NoDuplicateTopic ==
    /\ \A i, j \in DOMAIN topics :
          i # j => lower(topic_name(topics[i])) # lower(topic_name(topics[j]))
    /\ \A i \in DOMAIN thist :
          thist[i].existed => (~thist[i].created /\ thist[i].result # NoId)

\* C8 when every listing call succeeds.
C8_NoDuplicateTopic_listed ==
    (\A i \in DOMAIN thist : thist[i].listed = "ok") => C8_NoDuplicateTopic

\* The name two concurrent callers ask for.
RaceNames == { << "A", "b" >> }

\* Two callers, each running create_topic calls one after the other, their
\* list and create steps interleaved in any order.
TopicsRaceNext ==
    \/ \E c \in Callers, name \in RaceNames : CreateTopicList(c, name)
    \/ \E c \in Callers : CreateTopicFinish(c)

\* The create requests caller c issued in its k-th call.
CreatesOf(c, k) == {i \in DOMAIN tcreates : tcreates[i].caller = c /\ tcreates[i].call = k}

\* C16: in no interleaving of two callers' create_topic calls does a call
\* issue more than one create request; a call that found the name in its own
\* listing issues none.  (That two callers can both create the same new name
\* is the reachability of C16_Witness.)
C16_AtMostOneCreate ==
    /\ \A c \in Callers, k \in 1..(Len(thist) + 1) : Cardinality(CreatesOf(c, k)) <= 1
    /\ \A i \in DOMAIN thist :
          LET k == Cardinality({j \in 1..i : thist[j].caller = thist[i].caller}) IN
          Cardinality(CreatesOf(thist[i].caller, k)) = Creates(thist[i])
    /\ Len(tcreates) <= Len(thist)

\* Both callers listed before either created: two creates for one new name,
\* and the course holds two topics of that name.
C16_Witness ==
    /\ Len(thist) = 2
    /\ thist[1].caller # thist[2].caller
    /\ lower(thist[1].name) = lower(thist[2].name)
    /\ AllOk(thist[1]) /\ AllOk(thist[2])
    /\ ~thist[1].existed /\ ~thist[2].existed
    /\ thist[1].created /\ thist[2].created
    /\ thist[1].result # thist[2].result
    /\ Len(tcreates) = 2
    /\ \E i, j \in DOMAIN topics :
          i # j /\ lower(topic_name(topics[i])) = lower(topic_name(topics[j]))
                /\ lower(topic_name(topics[i])) = lower(thist[1].name)

(***************************************************************************)
(* classroom_api.Courses: the constructor, get_courses and the lookups.    *)
(* Course names are sequences of characters, ids sequences of digits.      *)
(***************************************************************************)
MaxLookups == 2

CourseNames == { << "A", "b" >>, << "A", "B" >>, << "a", "b" >>, << "b" >>, << "a" >> }

\* The course lists the service may serve.
ServedLists ==
    { << >>,
      << [id |-> << "7" >>, name |-> << "A", "b" >>],
         [id |-> << "1", "0" >>, name |-> << "b" >>] >>,
      << [id |-> << "7" >>, name |-> << "b" >>],
         [id |-> << "1", "0" >>, name |-> << "A", "B" >>],
         [id |-> << "1", "1" >>, name |-> << "a", "b" >>] >>,
      << [id |-> << "1", "1" >>],
         [id |-> << "7" >>, name |-> << "a", "b" >>] >> }

\* The constructor arguments: a name (str), an id (int), anything else.
CourseArgs ==
    { [type |-> "str", str |-> n, int |-> 0] : n \in CourseNames }
    \cup { [type |-> "int", str |-> << >>, int |-> n] : n \in {7, 10, 12} }
    \cup { [type |-> "other", str |-> << >>, int |-> 0] }

Unset == [set |-> FALSE, list |-> << >>]

\* course.get("name", "")
course_name(course) == IF "name" \in DOMAIN course THEN course.name ELSE << >>

Digit(d) ==
    CASE d = 0 -> "0" [] d = 1 -> "1" [] d = 2 -> "2" [] d = 3 -> "3" [] d = 4 -> "4"
      [] d = 5 -> "5" [] d = 6 -> "6" [] d = 7 -> "7" [] d = 8 -> "8" [] d = 9 -> "9"

\* str(n) of a non-negative int.
RECURSIVE str_int(_)
str_int(n) == IF n < 10 THEN << Digit(n) >> ELSE Append(str_int(n \div 10), Digit(n % 10))

\* A variant of the name scan that compares the names as they are written.
RECURSIVE by_name_exact(_, _, _)
by_name_exact(list, course_name_arg, i) ==
    IF i > Len(list) THEN NoId
    ELSE IF course_name(list[i]) = course_name_arg THEN << list[i].id >>
    ELSE by_name_exact(list, course_name_arg, i + 1)

\* The for loop of get_course_by_name from index i on: the id of the first
\* course whose lowered name equals the lowered argument, NoId (None) if none.
RECURSIVE by_name(_, _, _)
by_name(list, course_name_arg, i) ==
    IF i > Len(list) THEN NoId
    ELSE IF lower(course_name(list[i])) = lower(course_name_arg) THEN << list[i].id >>
    ELSE by_name(list, course_name_arg, i + 1)

\* The for loop of get_course_by_id: str(course.get("id", "")) == str(course_id).
RECURSIVE by_id(_, _, _)
by_id(list, id_str, i) ==
    IF i > Len(list) THEN NoId
    ELSE IF list[i].id = id_str THEN << list[i].id >>
    ELSE by_id(list, id_str, i + 1)

\* A lookup on the object: AttributeError when self.courses was never set,
\* else the scan; a hit sets self.course_id.
lookup(cache, arg) ==
    IF ~cache.set THEN [raised |-> TRUE, result |-> NoId]
    ELSE [raised |-> FALSE,
          result |-> IF arg.type = "str" THEN by_name(cache.list, arg.str, 1)
                     ELSE by_id(cache.list, str_int(arg.int), 1)]

\* A Courses(arg) call about to run, with the service serving s.
CoursesFresh(s, arg) ==
    /\ served = s
    /\ carg = arg
    /\ cpc = "new"
    /\ courses = Unset
    /\ course_id = NoId
    /\ clog = << >>
    /\ cerror = None

\* get_courses: self.courses = response.get("courses", []) on success; on
\* HttpError or any other exception the attribute is left as it was.
get_courses(cache, list, outcome) ==
    IF outcome = "ok" THEN [set |-> TRUE, list |-> list] ELSE cache

\* __init__, first part: self.get_courses().
CoursesInitList ==
    /\ cpc = "new"
    /\ \E outcome \in ListOutcomes : courses' = get_courses(courses, served, outcome)
    /\ cpc' = "listed"
    /\ UNCHANGED <<served, carg, course_id, clog, cerror>>
    /\ UNCHANGED notCourses

Entry(arg, r, before) ==
    [arg |-> arg, raised |-> r.raised, result |-> r.result, before |-> before]

\* __init__, second part: the lookup chosen by the argument's type.
CoursesInitLookup ==
    /\ cpc = "listed"
    /\ IF carg.type = "other"
       THEN /\ cpc' = "raised"
            /\ cerror' = "ValueError"
            /\ UNCHANGED <<course_id, clog>>
       ELSE LET r == lookup(courses, carg) IN
            /\ cpc' = IF r.raised THEN "raised" ELSE "constructed"
            /\ cerror' = IF r.raised THEN "AttributeError" ELSE None
            /\ course_id' = IF r.result # NoId THEN r.result ELSE course_id
            /\ clog' = Append(clog, Entry(carg, r, course_id))
    /\ UNCHANGED <<served, carg, courses>>
    /\ UNCHANGED notCourses

\* get_course_by_name called on the constructed object.
GetCourseByName ==
    /\ cpc = "constructed"
    /\ Len(clog) < MaxLookups
    /\ \E n \in CourseNames :
         LET arg == [type |-> "str", str |-> n, int |-> 0]
             r == lookup(courses, arg) IN
         /\ course_id' = IF r.result # NoId THEN r.result ELSE course_id
         /\ clog' = Append(clog, Entry(arg, r, course_id))
    /\ UNCHANGED <<served, carg, cpc, courses, cerror>>
    /\ UNCHANGED notCourses

\* get_courses called again on the constructed object, the service's list
\* having possibly changed: the cache is replaced.
GetCoursesAgain ==
    /\ cpc = "constructed"
    /\ clog # << >>
    /\ \E s \in ServedLists, outcome \in ListOutcomes :
         /\ served' = s
         /\ courses' = get_courses(courses, s, outcome)
    /\ clog' = << >>
    /\ UNCHANGED <<carg, cpc, course_id, cerror>>
    /\ UNCHANGED notCourses

CoursesNext ==
    \/ CoursesInitList
    \/ CoursesInitLookup
    \/ GetCourseByName
    \/ GetCoursesAgain

\* The indices of the cached courses whose name equals n ignoring letter case.
Matching(n) ==
    {i \in DOMAIN courses.list : lower(course_name(courses.list[i])) = lower(n)}

\* C9: get_course_by_name sets and returns the id of the first cached course
\* whose name equals the argument ignoring letter case, and returns None
\* leaving course_id as it was when no cached course matches; names that
\* differ only in letter case resolve to the same id.
C9_ResolveByName ==
    /\ \A k \in DOMAIN clog :
          (clog[k].arg.type = "str" /\ ~clog[k].raised) =>
             IF Matching(clog[k].arg.str) = {}
             THEN /\ clog[k].result = NoId
                  /\ k = Len(clog) => course_id = clog[k].before
             ELSE \E i \in Matching(clog[k].arg.str) :
                     /\ \A j \in Matching(clog[k].arg.str) : i <= j
                     /\ clog[k].result = << courses.list[i].id >>
                     /\ k = Len(clog) => course_id = clog[k].result
    /\ \A k, m \in DOMAIN clog :
          (clog[k].arg.type = "str" /\ clog[m].arg.type = "str"
           /\ lower(clog[k].arg.str) = lower(clog[m].arg.str)) =>
             clog[k].result = clog[m].result

C9_Witness ==
    /\ Len(clog) = 2
    /\ clog[1].arg.type = "str" /\ clog[2].arg.type = "str"
    /\ clog[1].arg.str # clog[2].arg.str
    /\ lower(clog[1].arg.str) = lower(clog[2].arg.str)
    /\ Cardinality(Matching(clog[1].arg.str)) = 2
    /\ clog[1].result # NoId
    /\ clog[2].result = clog[1].result
    /\ course_id = clog[2].result

C9_WitnessNotFound ==
    /\ Len(clog) = 2
    /\ clog[1].result # NoId
    /\ clog[2].arg.type = "str"
    /\ clog[2].result = NoId
    /\ course_id = clog[1].result

\* The end of a construction with a str or int argument as the claim C17 has
\* it: no exception, and course_id either the id of a cached course or unset
\* after a lookup that returned None.
ConstructionEnds ==
    /\ cpc' = "constructed"
    /\ cerror' = None
    /\ clog' # << >>
    /\ LET r == clog'[Len(clog')].result IN
       IF r # NoId
       THEN /\ course_id' = r
            /\ \E i \in DOMAIN courses'.list : << courses'.list[i].id >> = r
       ELSE course_id' = NoId

\* C17: constructing Courses with a name or an id lists the courses before
\* the lookup and, for every outcome of the listing call, ends without an
\* exception either resolved (course_id is the id of a cached course) or not
\* found (the lookup returned None, no course_id).
C17_ConstructionEnds ==
    [][ (cpc = "listed" /\ carg.type \in {"str", "int"}) => ConstructionEnds ]_vars

\* C17 for the constructions whose listing call succeeded.
C17_ConstructionEnds_listed ==
    [][ (cpc = "listed" /\ carg.type \in {"str", "int"} /\ courses.set)
           => ConstructionEnds ]_vars

(***************************************************************************)
(* The three listing methods side by side: Students.get_students,          *)
(* Content.get_topics and Courses.get_courses, each called on its object.  *)
(***************************************************************************)
MaxListCalls == 2

\* A variant of the handlers that lets the failure leave get_courses.
get_courses_reraise(outcome) == [kind |-> "raise", isNone |-> FALSE, value |-> << >>]

\* except HttpError / except Exception of get_courses: log, return [].
get_courses_except(outcome) == [kind |-> "return", isNone |-> FALSE, value |-> << >>]

\* get_topics called on a Content object.
GetTopicsCall ==
    /\ Len(llog) < MaxListCalls
    /\ \E outcome \in ListOutcomes :
         llog' = Append(llog, [op |-> "get_topics", outcome |-> outcome,
                               kind |-> "return", isNone |-> FALSE,
                               value |-> get_topics(topics, outcome)])
    /\ UNCHANGED <<roster, lpc, listed, page_token, requests, responses, lresult,
                   lop, output_file, written, exported>>
    /\ UNCHANGED notList

\* get_courses called on a Courses object: on success the cache is replaced
\* and the method falls off its end (None).
GetCoursesCall ==
    /\ Len(llog) < MaxListCalls
    /\ \E outcome \in ListOutcomes :
         LET r == IF outcome = "ok"
                  THEN [kind |-> "return", isNone |-> TRUE, value |-> << >>]
                  ELSE get_courses_except(outcome) IN
         /\ courses' = IF r.kind = "return" THEN get_courses(courses, served, outcome)
                       ELSE courses
         /\ llog' = Append(llog, [op |-> "get_courses", outcome |-> outcome,
                                  kind |-> r.kind, isNone |-> r.isNone,
                                  value |-> r.value])
    /\ UNCHANGED <<roster, lpc, listed, page_token, requests, responses, lresult,
                   lop, output_file, written, exported>>
    /\ UNCHANGED <<served, carg, cpc, course_id, clog, cerror>>
    /\ UNCHANGED <<rosterVars, topicVars, creationVars, postVars, authVars>>

ListingNext ==
    \/ GetStudentsStart
    \/ GetStudentsRequest
    \/ GetTopicsCall
    \/ GetCoursesCall

\* C14: a listing method (get_students, get_topics, get_courses) whose remote
\* call fails with HttpError or with any other exception returns the empty
\* list to its caller and raises nothing.
C14_ListFailureReturnsEmpty ==
    /\ \A i \in DOMAIN llog :
          llog[i].outcome # "ok" =>
             (llog[i].kind = "return" /\ ~llog[i].isNone /\ llog[i].value = << >>)
    /\ (lpc = "returned" /\ Len(requests) # Len(responses)) =>
          (lresult.kind = "return" /\ lresult.value = << >>)

C14_Witness ==
    /\ Len(llog) = 2
    /\ llog[1].op = "get_topics" /\ llog[1].outcome = "HttpError"
    /\ llog[2].op = "get_courses" /\ llog[2].outcome = "Exception"
    /\ topics # << >>
    /\ served # << >>
    /\ lpc = "returned"
    /\ Len(requests) = 2
    /\ Len(responses) = 1
    /\ listed # << >>
    /\ lresult.value = << >>

(***************************************************************************)
(* classroom_api.CoursesCreation: the constructor, create_course and       *)
(* __call__.                                                               *)
(***************************************************************************)
MaxCreations == 2

NewCourseNames == { << "Q", "A" >> }

\* The topic name the create_topic calls made next to course creations carry.
NewTopicNames == { << "A", "b" >> }

\* The service's courses().create: a new course with a fresh id.
courses_create(onService, name) ==
    Append(onService, [id |-> str_int(Len(onService) + 1), name |-> name])

\* except HttpError / except Exception of create_course: log, return None;
\* self.course_id is not assigned.
create_course_except(outcome) == [kind |-> "return", result |-> NoId]

\* No CoursesCreation object yet, the service having created made.
CreationFresh(made) ==
    /\ new_courses = made
    /\ cc_course_id = [object |-> FALSE, id |-> NoId]
    /\ cchist = << >>

\* CoursesCreation(name): a new object, whose __init__ calls create_course
\* and drops what it returns.
CoursesCreationInit(name) ==
    /\ Len(cchist) < MaxCreations
    /\ \E outcome \in ListOutcomes :
         IF outcome = "ok"
         THEN LET made == courses_create(new_courses, name)
                  id == made[Len(made)].id IN
              /\ new_courses' = made
              /\ cc_course_id' = [object |-> TRUE, id |-> << id >>]
              /\ cchist' = Append(cchist, [op |-> "create_course", name |-> name,
                                           outcome |-> outcome, kind |-> "return",
                                           result |-> << id >>])
         ELSE LET e == create_course_except(outcome) IN
              /\ cc_course_id' = [object |-> e.kind = "return", id |-> NoId]
              /\ cchist' = Append(cchist, [op |-> "create_course", name |-> name,
                                           outcome |-> outcome, kind |-> e.kind,
                                           result |-> e.result])
              /\ UNCHANGED new_courses
    /\ UNCHANGED notCreation

\* __call__ on the object: self.course_id, None when the attribute was never
\* set (the AttributeError is caught).
CoursesCreationCall ==
    /\ cc_course_id.object
    /\ cchist # << >>
    /\ cchist[Len(cchist)].op = "create_course"
    /\ cchist' = Append(cchist, [op |-> "__call__", name |-> cchist[Len(cchist)].name,
                                 outcome |-> cchist[Len(cchist)].outcome,
                                 kind |-> "return", result |-> cc_course_id.id])
    /\ UNCHANGED <<new_courses, cc_course_id>>
    /\ UNCHANGED notCreation

\* create_topic calls by one caller and CoursesCreation objects, in any order.
CreateNext ==
    \/ \E name \in NewTopicNames : CreateTopicList(1, name)
    \/ CreateTopicFinish(1)
    \/ \E name \in NewCourseNames : CoursesCreationInit(name)
    \/ CoursesCreationCall

\* The finished create_topic calls whose create request failed, and the
\* create_course calls whose request failed.
FailedTopicCreates == {i \in DOMAIN thist : thist[i].create \in {"HttpError", "Exception"}}
FailedCourseCreates ==
    {i \in DOMAIN cchist : cchist[i].op = "create_course" /\ cchist[i].outcome # "ok"}

\* C13: when the remote create call of create_topic or of create_course fails,
\* the failure leaves the operation as an exception to its caller.
C13_CreateFailureSurfaces ==
    /\ \A i \in FailedTopicCreates : thist[i].kind = "raise"
    /\ \A i \in FailedCourseCreates : cchist[i].kind = "raise"

\* C13 as the code has it: a failed create request makes create_topic and
\* create_course return None, nothing is raised, nothing is created, and the
\* CoursesCreation object then answers None when called.
C13_CreateFailureReturnsNone ==
    /\ \A i \in FailedTopicCreates : thist[i].kind = "return" /\ thist[i].result = NoId
    /\ \A i \in FailedCourseCreates :
          /\ cchist[i].kind = "return"
          /\ cchist[i].result = NoId
          /\ (i + 1 \in DOMAIN cchist /\ cchist[i + 1].op = "__call__") =>
                cchist[i + 1].result = NoId
    /\ Len(new_courses) = Cardinality({i \in DOMAIN cchist : cchist[i].op = "create_course"
                                                           /\ cchist[i].outcome = "ok"})

C13_Witness ==
    /\ \E i \in FailedTopicCreates : thist[i].create = "HttpError"
    /\ \E i \in FailedCourseCreates :
          /\ cchist[i].outcome = "Exception"
          /\ i + 1 \in DOMAIN cchist
          /\ cchist[i + 1].op = "__call__"

(***************************************************************************)
(* Content.create_announcement and Content.create_material (the latter the *)
(* same text in classroom_content_api.py and classroom_api.py).  A request *)
(* body is the set of its keys and the value under "materials"; a          *)
(* materials value is None or a list.                                      *)
(***************************************************************************)
MaxPosts == 2

NoMaterials == [isNone |-> TRUE, items |-> << >>]

\* The materials arguments: left out (the default None), an empty list, a
\* list of one attachment.
MaterialArgs ==
    { NoMaterials,
      [isNone |-> FALSE, items |-> << >>],
      [isNone |-> FALSE, items |-> << "link" >>] }

\* The topic_id arguments: left out (None), or an id.
TopicIdArgs == { NoId, << 1 >> }

\* Python truthiness of a materials value.
TruthyList(m) == ~m.isNone /\ m.items # << >>

\* announcement_data as create_announcement sends it.
announcement_data(materials) ==
    IF TruthyList(materials)
    THEN [keys |-> {"text", "state", "assigneeMode", "materials"}, materials |-> materials]
    ELSE [keys |-> {"text", "state", "assigneeMode"}, materials |-> NoMaterials]

\* material_data as create_material sends it.
material_data(topic_id, materials) ==
    [keys |-> {"title", "description", "state", "materials"}
                 \cup (IF topic_id # NoId THEN {"topicId"} ELSE {}),
     materials |-> materials]

\* What the method returns: response.get("id"), None on any failure.
post_result(outcome, id) == IF outcome = "ok" THEN << id >> ELSE NoId

\* A Content object, the requests in sent having gone out before.
PostsFresh(sent) == posts = sent

CreateAnnouncement(materials) ==
    /\ Len(posts) < MaxPosts
    /\ \E outcome \in ListOutcomes :
         posts' = Append(posts, [op |-> "create_announcement", arg |-> materials,
                                 body |-> announcement_data(materials),
                                 outcome |-> outcome,
                                 result |-> post_result(outcome, Len(posts) + 1)])
    /\ UNCHANGED notPosts

CreateMaterial(topic_id, materials) ==
    /\ Len(posts) < MaxPosts
    /\ \E outcome \in ListOutcomes :
         posts' = Append(posts, [op |-> "create_material", arg |-> materials,
                                 body |-> material_data(topic_id, materials),
                                 outcome |-> outcome,
                                 result |-> post_result(outcome, Len(posts) + 1)])
    /\ UNCHANGED notPosts

PostsNext ==
    \/ \E m \in MaterialArgs : CreateAnnouncement(m)
    \/ \E t \in TopicIdArgs, m \in MaterialArgs : CreateMaterial(t, m)

\* C15: create_material always sends a materials key, an empty list when the
\* caller passes no materials, never absent and never None; and
\* create_announcement leaves the key out when no materials are given.
C15_MaterialsField ==
    \A i \in DOMAIN posts :
       /\ posts[i].op = "create_material" =>
             /\ "materials" \in posts[i].body.keys
             /\ ~posts[i].body.materials.isNone
             /\ ~TruthyList(posts[i].arg) => posts[i].body.materials.items = << >>
       /\ (posts[i].op = "create_announcement" /\ ~TruthyList(posts[i].arg)) =>
             "materials" \notin posts[i].body.keys

\* The parts of C15 the code has: the key is always in create_material's
\* body, and never in create_announcement's when no materials are given.
C15_MaterialsKey ==
    \A i \in DOMAIN posts :
       /\ posts[i].op = "create_material" => "materials" \in posts[i].body.keys
       /\ (posts[i].op = "create_announcement" /\ ~TruthyList(posts[i].arg)) =>
             "materials" \notin posts[i].body.keys

(***************************************************************************)
(* classroom_api.authenticate.  A credential is a token and its expiry     *)
(* instant.  Credentials.expired belongs to the google-auth library: it    *)
(* compares the clock with the expiry less a skew fixed by the library     *)
(* release; the repository pins no release, so the skew is drawn from      *)
(* LibrarySkews.  authenticate itself subtracts nothing.                   *)
(***************************************************************************)
MaxTicks == 3

\* Seconds the clock advances between two calls.
TickStep == {30}

LibrarySkews == {10, 225, 300}

\* Expiry instants of the credential found in token.json at the start.
StoredExpiries == {-100, 0, 30, 59, 60, 61, 100, 300, 4000}

NoCreds == << >>

\* creds.expired, read at time t.
expired(c, t) == t >= c.expiry - skew

\* flow.run_local_server: a new credential, valid for an hour.
run_local_server(t) == [token |-> t + 1, expiry |-> t + 3600]

\* The files and the clock before a call of authenticate.
AuthFresh(tf, sec, sk) ==
    /\ token_file = tf
    /\ secret = sec
    /\ skew = sk
    /\ now = 0
    /\ apc = "idle"
    /\ creds = NoCreds
    /\ alog = << >>
    /\ aret = [kind |-> None, creds |-> NoCreds, at |-> 0]

\* token.json as a failed write may leave it: present and empty.
EmptiedFile == << [token |-> -1, expiry |-> 0] >>

\* creds = False; if token_file.exists(): creds = from_authorized_user_file,
\* which raises ValueError on a file that holds no credential.
AuthLoad ==
    /\ apc = "idle"
    /\ IF token_file = EmptiedFile
       THEN /\ creds' = NoCreds
            /\ alog' = << >>
            /\ apc' = "idle"
            /\ aret' = [kind |-> "ValueError", creds |-> NoCreds, at |-> now]
       ELSE /\ creds' = token_file
            /\ alog' = IF token_file # << >> THEN << "load" >> ELSE << >>
            /\ apc' = "check"
            /\ UNCHANGED aret
    /\ UNCHANGED <<token_file, secret, skew, now>>
    /\ UNCHANGED notAuth

\* `not creds or creds.expired`
needs_flow(c, t) == c = NoCreds \/ expired(c[1], t)

\* A variant of the test that starts the grant flow without looking for
\* client_secret.json.
AuthCheck_no_secret_test ==
    /\ apc = "check"
    /\ IF needs_flow(creds, now)
       THEN /\ apc' = "flow"
            /\ UNCHANGED <<aret, creds>>
       ELSE /\ apc' = "return"
            /\ UNCHANGED <<aret, creds>>
    /\ UNCHANGED <<token_file, secret, skew, now, alog>>
    /\ UNCHANGED notAuth

\* The test, and inside it the test for client_secret.json.
AuthCheck ==
    /\ apc = "check"
    /\ IF needs_flow(creds, now)
       THEN IF ~secret
            THEN /\ apc' = "idle"
                 /\ aret' = [kind |-> "FileNotFoundError", creds |-> NoCreds, at |-> now]
                 /\ creds' = NoCreds
            ELSE /\ apc' = "flow"
                 /\ UNCHANGED <<aret, creds>>
       ELSE /\ apc' = "return"
            /\ UNCHANGED <<aret, creds>>
    /\ UNCHANGED <<token_file, secret, skew, now, alog>>
    /\ UNCHANGED notAuth

\* The grant flow; a failed flow raises out of authenticate.
AuthFlow ==
    /\ apc = "flow"
    /\ \E outcome \in {"ok", "Exception"} :
         IF outcome = "ok"
         THEN /\ creds' = << run_local_server(now) >>
              /\ alog' = Append(alog, "flow")
              /\ apc' = "write"
              /\ UNCHANGED aret
         ELSE /\ creds' = NoCreds
              /\ alog' = Append(alog, "flow")
              /\ apc' = "idle"
              /\ aret' = [kind |-> "Exception", creds |-> NoCreds, at |-> now]
    /\ UNCHANGED <<token_file, secret, skew, now>>
    /\ UNCHANGED notAuth

\* A variant of the save that leaves token.json as it was.
AuthWrite_unsaved ==
    /\ apc = "write"
    /\ apc' = "return"
    /\ UNCHANGED <<token_file, secret, skew, now, creds, aret, alog>>
    /\ UNCHANGED notAuth

\* with open(token_file, "w") as token: token.write(creds.to_json())
\* An OSError from open or write leaves authenticate; token.json is then as
\* it was (open failed) or emptied by the open (write failed).
AuthWrite ==
    /\ apc = "write"
    /\ \E outcome \in {"ok", "OSError"} :
         IF outcome = "ok"
         THEN /\ token_file' = creds
              /\ alog' = Append(alog, "write")
              /\ apc' = "return"
              /\ UNCHANGED <<creds, aret>>
         ELSE /\ token_file' \in {token_file, EmptiedFile}
              /\ alog' = alog
              /\ apc' = "idle"
              /\ creds' = NoCreds
              /\ aret' = [kind |-> "OSError", creds |-> NoCreds, at |-> now]
    /\ UNCHANGED <<secret, skew, now>>
    /\ UNCHANGED notAuth

\* return creds
AuthReturn ==
    /\ apc = "return"
    /\ aret' = [kind |-> "return", creds |-> creds, at |-> now, steps |-> alog]
    /\ creds' = NoCreds
    /\ apc' = "idle"
    /\ UNCHANGED <<token_file, secret, skew, now, alog>>
    /\ UNCHANGED notAuth

\* Time passes between two calls.
Tick ==
    /\ apc = "idle"
    /\ \E d \in TickStep :
         /\ now + d <= MaxTicks * d
         /\ now' = now + d
    /\ UNCHANGED <<token_file, secret, skew, apc, creds, alog, aret>>
    /\ UNCHANGED notAuth

AuthNext ==
    \/ AuthLoad
    \/ AuthCheck
    \/ AuthFlow
    \/ AuthWrite
    \/ AuthReturn
    \/ Tick

\* C10: authenticate never returns a credential that is within 60 s of its
\* expiry: such a persisted credential is replaced through the grant flow.
C10_SafetyMargin ==
    aret.kind = "return" => aret.creds[1].expiry - aret.at >= 60

\* C10 as it holds of authenticate: the credential returned is one that
\* Credentials.expired does not report expired at the time of the test.
C10_NotExpiredByLibrary ==
    aret.kind = "return" => ~expired(aret.creds[1], aret.at)

\* C11: when authenticate returns a credential, token.json holds exactly
\* that credential: a grant flow is followed by the write before the return,
\* and a credential loaded as usable is returned without a write.
C11_StoreHoldsReturned ==
    (apc = "idle" /\ aret.kind = "return") =>
       /\ token_file = aret.creds
       /\ aret.steps \in { << "load" >>, << "flow", "write" >>,
                           << "load", "flow", "write" >> }

\* A credential written by an earlier grant flow, loaded by a later call and
\* returned without a write.
C11_Witness ==
    /\ apc = "idle"
    /\ aret.kind = "return"
    /\ aret.steps = << "load" >>
    /\ aret.creds[1].token # 0
    /\ token_file = aret.creds

\* C12: with no usable persisted credential and client_secret.json missing,
\* authenticate raises FileNotFoundError before the grant flow starts, returns
\* no credential and leaves token.json unchanged.
C12_MissingSecretFails ==
    [][ (apc = "check" /\ ~secret /\ (creds = NoCreds \/ expired(creds[1], now))) =>
           /\ apc' = "idle"
           /\ aret'.kind = "FileNotFoundError"
           /\ aret'.creds = NoCreds
           /\ token_file' = token_file
           /\ alog' = alog
           /\ \A i \in DOMAIN alog : alog[i] # "flow" ]_vars

C12_Witness ==
    /\ apc = "idle"
    /\ aret.kind = "FileNotFoundError"
    /\ ~secret
    /\ token_file # << >>
    /\ token_file # EmptiedFile
    /\ expired(token_file[1], now)

(***************************************************************************)
(* The specifications: one per component, the other components at rest.    *)
(***************************************************************************)
NoFile == [exists |-> FALSE, suffix |-> ".csv", wellformed |-> TRUE,
           rows |-> << [email |-> "a@x.com"] >>]
NoArg == [type |-> "other", str |-> << >>, int |-> 0]

RosterInit ==
    /\ \E c \in Classes, f \in Files :
          \E inv \in (IF c = "cr_students_api" THEN BOOLEAN ELSE {FALSE}) :
             RosterFresh(c, f, inv)
    /\ ListFresh(<< >>)
    /\ TopicsFresh(<< >>)
    /\ CoursesFresh(<< >>, NoArg)
    /\ CreationFresh(<< >>)
    /\ PostsFresh(<< >>)
    /\ AuthFresh(<< >>, FALSE, 10)

SpecRoster == RosterInit /\ [][RosterNext]_vars

ListInit ==
    /\ \E n \in 0..MaxRoster : ListFresh([i \in 1..n |-> i])
    /\ RosterFresh("cr_students_api", NoFile, FALSE)
    /\ TopicsFresh(<< >>)
    /\ CoursesFresh(<< >>, NoArg)
    /\ CreationFresh(<< >>)
    /\ PostsFresh(<< >>)
    /\ AuthFresh(<< >>, FALSE, 10)

SpecList == ListInit /\ [][ListNext]_vars

\* get_students runs on one thread: once called, each pass of its loop runs.
SpecListFair == SpecList /\ WF_vars(ListNext)

TopicsInit ==
    /\ \E t \in TopicLists : TopicsFresh(t)
    /\ RosterFresh("cr_students_api", NoFile, FALSE)
    /\ ListFresh(<< >>)
    /\ CoursesFresh(<< >>, NoArg)
    /\ CreationFresh(<< >>)
    /\ PostsFresh(<< >>)
    /\ AuthFresh(<< >>, FALSE, 10)

SpecTopics == TopicsInit /\ [][TopicsNext]_vars

SpecTopicsRace == TopicsInit /\ [][TopicsRaceNext]_vars

CoursesInit ==
    /\ \E s \in ServedLists, arg \in CourseArgs : CoursesFresh(s, arg)
    /\ RosterFresh("cr_students_api", NoFile, FALSE)
    /\ ListFresh(<< >>)
    /\ TopicsFresh(<< >>)
    /\ CreationFresh(<< >>)
    /\ PostsFresh(<< >>)
    /\ AuthFresh(<< >>, FALSE, 10)

SpecCourses == CoursesInit /\ [][CoursesNext]_vars

AuthInit ==
    /\ \E tf \in {<< >>} \cup { << [token |-> 0, expiry |-> e] >> : e \in StoredExpiries },
          sec \in BOOLEAN, sk \in LibrarySkews :
          AuthFresh(tf, sec, sk)
    /\ RosterFresh("cr_students_api", NoFile, FALSE)
    /\ ListFresh(<< >>)
    /\ TopicsFresh(<< >>)
    /\ CoursesFresh(<< >>, NoArg)
    /\ CreationFresh(<< >>)
    /\ PostsFresh(<< >>)

SpecAuth == AuthInit /\ [][AuthNext]_vars

ListingInit ==
    /\ \E n \in {0, PageSize, MaxRoster} : ListFresh([i \in 1..n |-> i])
    /\ \E t \in TopicLists : TopicsFresh(t)
    /\ \E s \in ServedLists : CoursesFresh(s, NoArg)
    /\ RosterFresh("cr_students_api", NoFile, FALSE)
    /\ CreationFresh(<< >>)
    /\ PostsFresh(<< >>)
    /\ AuthFresh(<< >>, FALSE, 10)

SpecListing == ListingInit /\ [][ListingNext]_vars

PostsInit ==
    /\ \E sent \in {<< >>} : PostsFresh(sent)
    /\ RosterFresh("cr_students_api", NoFile, FALSE)
    /\ ListFresh(<< >>)
    /\ TopicsFresh(<< >>)
    /\ CoursesFresh(<< >>, NoArg)
    /\ CreationFresh(<< >>)
    /\ AuthFresh(<< >>, FALSE, 10)

SpecPosts == PostsInit /\ [][PostsNext]_vars

CreateInit ==
    /\ \E t \in TopicLists : TopicsFresh(t)
    /\ CreationFresh(<< >>)
    /\ PostsFresh(<< >>)
    /\ RosterFresh("cr_students_api", NoFile, FALSE)
    /\ ListFresh(<< >>)
    /\ CoursesFresh(<< >>, NoArg)
    /\ AuthFresh(<< >>, FALSE, 10)

SpecCreate == CreateInit /\ [][CreateNext]_vars

====
